---- MODULE Spec2Model ----
(***************************************************************************)
(* Model of the Session Bridge of twilio-voice-openai                      *)
(* (src/unnamed/part_000): handleMediaStream, the AI channel reader        *)
(* handleOpenAIMessages, the telephony channel reader handleTwilioMessages *)
(* and the webhook client setupSchedule, for one bridged call.             *)
(*                                                                         *)
(* Two goroutines exist per session: the HTTP handler goroutine, which     *)
(* runs handleMediaStream and, inside it, handleTwilioMessages; and the    *)
(* goroutine started by `go handleOpenAIMessages(...)`.  Every statement   *)
(* that touches a socket, the webhook or the shared *streamSid is one      *)
(* step.  The peers (Twilio, the AI service, the webhook receiver) are the *)
(* environment: what a read returns, whether a write succeeds and what the *)
(* webhook answers are chosen nondeterministically.                        *)
(***************************************************************************)
EXTENDS Naturals, Sequences, FiniteSets

\* ------------------------------------------------------------------ bounds
\* How many frames with an effect (telephony media and start events, AI audio
\* deltas and function calls) one explored session receives, over both
\* sockets.  Frames that leave no trace (malformed frames, ignored kinds) are
\* not limited.
MaxEvents == 2

\* ------------------------------------------------------- wire vocabulary
\* The value of a JSON field that is absent or is not a string: what makes a
\* Go type assertion x.(string) report ok = false.
NotString == "<not-a-string>"

\* What a read of the two-word string *streamSid can return while the other
\* goroutine is storing to it (a data race): a value that is neither the old
\* nor the new string.
TornSid == "<torn>"

Payloads == {"p1", "p2"}
Sids == {"S1", "S2"}
Phones == {"+15550100"}

\* v, _ := x.(string): the zero value "" when the assertion fails.
StrOr(x) == IF x = NotString THEN "" ELSE x

\* v, ok := x.(string)
IsStr(x) == x # NotString

\* ------------------------------------------------------ telephony events
\* A frame read from the telephony socket, as json.Unmarshal sees it:
\* decodes says whether it is JSON at all; event is data["event"], payload is
\* data["media"]["payload"], streamSid is data["start"]["streamSid"].
TwEvt(d, e, p, s) == [decodes |-> d, event |-> e, payload |-> p, streamSid |-> s]

NoTwEvent == TwEvt(FALSE, "<none>", NotString, NotString)
TwMalformed == TwEvt(FALSE, "<garbage>", NotString, NotString)
TwMediaEvents == {TwEvt(TRUE, "media", p, NotString) : p \in {"p1", NotString}}
TwStartEvents == {TwEvt(TRUE, "start", NotString, s) : s \in Sids \cup {NotString}}
TwOtherEvents == {TwEvt(TRUE, "stop", NotString, NotString)}

\* ------------------------------------------------------------- AI events
\* The arguments string of a function call, by what json.Unmarshal into a
\* map[string]string makes of it.
ArgsFull == "{name,email,datetime,description}"
ArgsNoDatetime == "{name,email,description}"
ArgsNested == "{name:{first,last}}"

ArgKeys == {"name", "email", "datetime", "description"}

\* json.Unmarshal([]byte(arguments), &data) with data a map[string]string:
\* an error unless the text is a JSON object whose values are all strings.
\* data[k] of a key that is absent is "".
ParseArgs(a) ==
  IF a = ArgsFull
    THEN [err |-> FALSE,
          data |-> [k \in ArgKeys |->
                      CASE k = "name" -> "Alice"
                        [] k = "email" -> "a@x.com"
                        [] k = "datetime" -> "2024-01-01T10:00:00Z"
                        [] OTHER -> "demo"]]
  ELSE IF a = ArgsNoDatetime
    THEN [err |-> FALSE,
          data |-> [k \in ArgKeys |->
                      CASE k = "name" -> "Bob"
                        [] k = "email" -> "b@x.com"
                        [] k = "datetime" -> ""
                        [] OTHER -> "intro"]]
  ELSE [err |-> TRUE, data |-> [k \in ArgKeys |-> ""]]

\* One element of response.output.
OutEl(o, t, n, a, c) == [isObj |-> o, type |-> t, name |-> n, arguments |-> a, call_id |-> c]

FnCall(a, c) == OutEl(TRUE, "function_call", "setup_schedule", a, c)
MsgEl == OutEl(TRUE, "message", NotString, NotString, NotString)

\* A frame read from the AI socket: type is response["type"], delta is
\* response["delta"], hasResponse says response["response"] is an object,
\* outIsList says its "output" is a list, output is that list.
AIEvt(d, t, dl, hr, ol, out) ==
  [decodes |-> d, type |-> t, delta |-> dl, hasResponse |-> hr, outIsList |-> ol, output |-> out]

NoAIEvent == AIEvt(FALSE, "<none>", NotString, FALSE, FALSE, <<>>)
AIMalformed == AIEvt(FALSE, "<garbage>", NotString, FALSE, FALSE, <<>>)

\* The claim-level notion of "an AI event whose first response output is a
\* well-formed setup_schedule function call".
IsCallEvent(e) ==
  /\ e.decodes
  /\ e.hasResponse
  /\ e.outIsList
  /\ Len(e.output) > 0
  /\ e.output[1].isObj
  /\ e.output[1].type = "function_call"
  /\ e.output[1].name = "setup_schedule"
  /\ IsStr(e.output[1].arguments)
  /\ IsStr(e.output[1].call_id)
  /\ ~ParseArgs(e.output[1].arguments).err

IsDeltaEvent(e) == e.decodes /\ e.type = "response.audio.delta" /\ IsStr(e.delta)

\* Events with an effect: a function call, two audio deltas, an audio delta
\* that also carries a function call, and an error event that carries one.
AIGoodCall == AIEvt(TRUE, "response.done", NotString, TRUE, TRUE, <<FnCall(ArgsFull, "c1")>>)

AIDeltas ==
  {AIEvt(TRUE, "response.audio.delta", p, FALSE, FALSE, <<>>) : p \in Payloads}

AIDeltaCall ==
  AIEvt(TRUE, "response.audio.delta", "p1", TRUE, TRUE, <<FnCall(ArgsNoDatetime, "c2")>>)

AIErrorCall == AIEvt(TRUE, "error", NotString, TRUE, TRUE, <<FnCall(ArgsFull, "c1")>>)

\* Events without one: an audio delta without a string delta, an event of
\* another kind with a string delta.
AIPlainEvents ==
  {AIEvt(TRUE, "response.audio.delta", NotString, FALSE, FALSE, <<>>),
   AIEvt(TRUE, "response.audio.done", "p1", FALSE, FALSE, <<>>)}

\* Events with a response object that is no well-formed setup_schedule call:
\* no output list, an empty output, arguments that are no string, a call_id
\* that is no string, another function name, arguments that are no flat
\* string map, a function call in second position.
AIIgnoredCalls ==
  {AIEvt(TRUE, "response.done", NotString, TRUE, FALSE, <<>>),
   AIEvt(TRUE, "response.done", NotString, TRUE, TRUE, <<>>),
   AIEvt(TRUE, "response.done", NotString, TRUE, TRUE,
         <<OutEl(TRUE, "function_call", "setup_schedule", ArgsFull, NotString)>>),
   AIEvt(TRUE, "response.done", NotString, TRUE, TRUE,
         <<OutEl(TRUE, "function_call", "setup_schedule", NotString, "c1")>>),
   AIEvt(TRUE, "response.done", NotString, TRUE, TRUE,
         <<OutEl(TRUE, "function_call", "get_weather", ArgsFull, "c1")>>),
   AIEvt(TRUE, "response.done", NotString, TRUE, TRUE,
         <<FnCall(ArgsNested, "c1")>>),
   AIEvt(TRUE, "response.done", NotString, TRUE, TRUE,
         <<MsgEl, FnCall(ArgsFull, "c1")>>)}

AIEvents ==
  {AIMalformed, AIGoodCall, AIErrorCall, AIDeltaCall}
    \cup AIDeltas \cup AIPlainEvents \cup AIIgnoredCalls

\* The values SYSTEM_MESSAGE and GREETINGS_RESPONSE can have in the
\* environment of the process (lines 108, 118).
EnvSystemMessage == {"", "You book appointments"}
EnvGreetingsResponse == {"Hello, how can I help?"}

\* http.StatusOK
StatusOK == 200

\* What client.Do(req) can return: a response with an HTTP status, or an error
\* (no response).
WebhookAnswers ==
  {[err |-> FALSE, status |-> 200], [err |-> FALSE, status |-> 201],
   [err |-> FALSE, status |-> 500], [err |-> TRUE, status |-> 0]}

Pending == [err |-> TRUE, status |-> 999]

\* ------------------------------------------------------------------ state
VARIABLES
  systemMessage,       \* var systemMessage string (line 18)
  xmlResponse,         \* var xmlResponse string (line 19)
  sessionUpdate,       \* var sessionUpdate (lines 37-79), its instructions
  firstResponseUpdate, \* var firstResponseUpdate (lines 81-94), its text
  brPc,        \* Run's, then handleMediaStream's position
  aiPc,        \* handleOpenAIMessages' position ("idle" before `go`)
  twPc,        \* handleTwilioMessages' position ("idle" before the call)
  wsState,     \* the telephony socket ws: "none", "open", "closed"
  aiState,     \* the AI socket openAIWs: "none", "open", "closed"
  streamSid,   \* var streamSid string, shared through &streamSid
  phoneNumber, \* r.PathValue("number")
  aiCur,       \* the frame the AI reader holds (message / response)
  twCur,       \* the frame the telephony reader holds (message / data)
  audioSid,    \* audioDelta["streamSid"], read from *streamSid
  aiOut,       \* every WriteJSON call made on openAIWs, in order
  twOut,       \* every WriteJSON call made on ws, in order
  posts,       \* every webhook POST issued, in order, with its answer
  twMediaIn,   \* history: payloads of the media events read from ws
  twStartIn,   \* history: streamSids of the start events read from ws
  aiDeltaIn,   \* history: payloads of the string audio deltas read
  aiCallIn     \* history: the well-formed function-call events read

vars == <<systemMessage, xmlResponse, sessionUpdate, firstResponseUpdate,
          brPc, aiPc, twPc, wsState, aiState, streamSid, phoneNumber, aiCur, twCur,
          audioSid, aiOut, twOut, posts, twMediaIn, twStartIn, aiDeltaIn, aiCallIn>>

cfgVars == <<systemMessage, xmlResponse, sessionUpdate, firstResponseUpdate>>

brVars == <<brPc, wsState, aiState>>
aiVars == <<aiPc, aiCur, audioSid, twOut, posts, aiDeltaIn, aiCallIn>>
twVars == <<twPc, twCur, streamSid, twMediaIn, twStartIn>>

\* One WriteJSON call on the AI socket.
AIMsg(k, who, arg, ok) == [kind |-> k, by |-> who, arg |-> arg, ok |-> ok]

\* One WriteJSON call on the telephony socket: the media event of lines 232-238.
TwMsg(sid, p, ok) == [event |-> "media", streamSid |-> sid, payload |-> p, ok |-> ok]

\* A write on this socket has already failed.
Broken(log) == \E i \in 1..Len(log) : ~log[i].ok

\* The outcomes of a WriteJSON on a socket whose calls so far are log: it can
\* fail at any time (the peer is gone); it fails once this side has closed
\* the socket; and it fails once a write has failed (the connection keeps
\* its first write error and returns it to every later write).
WriteOutcomes(state, log) ==
  IF state = "open" /\ ~Broken(log) THEN {TRUE, FALSE} ELSE {FALSE}

\* The frames with an effect read so far.
EventsSeen == Len(twMediaIn) + Len(twStartIn) + Len(aiDeltaIn) + Len(aiCallIn)

\* The state when main calls Run: the package-level variables have been
\* initialised, in dependency order. systemMessage and xmlResponse have no
\* initialiser and hold the empty string; the initialisers of sessionUpdate
\* and firstResponseUpdate have been evaluated with those values.
Init ==
  /\ systemMessage = ""
  /\ xmlResponse = ""
  /\ sessionUpdate = [type |-> "session.update", instructions |-> systemMessage]
  /\ firstResponseUpdate = [type |-> "conversation.item.create",
                            id |-> "greeting_01", text |-> xmlResponse]
  /\ brPc = "run"
  /\ aiPc = "idle"
  /\ twPc = "idle"
  /\ wsState = "none"
  /\ aiState = "none"
  /\ streamSid = ""
  /\ phoneNumber \in Phones
  /\ aiCur = NoAIEvent
  /\ twCur = NoTwEvent
  /\ audioSid = ""
  /\ aiOut = <<>>
  /\ twOut = <<>>
  /\ posts = <<>>
  /\ twMediaIn = <<>>
  /\ twStartIn = <<>>
  /\ aiDeltaIn = <<>>
  /\ aiCallIn = <<>>

\* ------------------------------------------------------------- Run
\* Run (lines 96-136): systemMessage = os.Getenv("SYSTEM_MESSAGE") and
\* xmlResponse = os.Getenv("GREETINGS_RESPONSE"), log.Fatal when one is
\* empty; then the server accepts the call. Nothing is assigned to
\* sessionUpdate or firstResponseUpdate.
Run ==
  /\ brPc = "run"
  /\ \E sm \in EnvSystemMessage, gr \in EnvGreetingsResponse :
       /\ systemMessage' = sm
       /\ xmlResponse' = IF sm = "" THEN xmlResponse ELSE gr
       /\ brPc' = IF sm = "" \/ gr = "" THEN "fatal" ELSE "upgrade"
  /\ UNCHANGED <<sessionUpdate, firstResponseUpdate>>
  /\ UNCHANGED <<wsState, aiState, aiPc, twPc, aiOut>>
  /\ UNCHANGED <<streamSid, phoneNumber, aiCur, twCur, audioSid, twOut, posts,
                 twMediaIn, twStartIn, aiDeltaIn, aiCallIn>>

\* ------------------------------------------------- handleMediaStream
\* upgrader.Upgrade (lines 156-161): on failure return with no socket.
BridgeUpgrade ==
  /\ brPc = "upgrade"
  /\ \/ brPc' = "dial" /\ wsState' = "open"
     \/ brPc' = "done" /\ wsState' = wsState
  /\ UNCHANGED <<aiState, aiPc, twPc, aiOut>>
  /\ UNCHANGED <<streamSid, phoneNumber, cfgVars, aiCur, twCur, audioSid, twOut, posts,
                 twMediaIn, twStartIn, aiDeltaIn, aiCallIn>>

\* websocket.DefaultDialer.Dial (lines 165-173): on failure return, which
\* runs the deferred ws.Close().
BridgeDial ==
  /\ brPc = "dial"
  /\ \/ brPc' = "spawn" /\ aiState' = "open"
     \/ brPc' = "closeWs" /\ aiState' = aiState
  /\ UNCHANGED <<wsState, aiPc, twPc, aiOut>>
  /\ UNCHANGED <<streamSid, phoneNumber, cfgVars, aiCur, twCur, audioSid, twOut, posts,
                 twMediaIn, twStartIn, aiDeltaIn, aiCallIn>>

\* go handleOpenAIMessages(openAIWs, ws, &streamSid, ...) (line 179).
BridgeSpawnAIReader ==
  /\ brPc = "spawn"
  /\ brPc' = "sendUpdate"
  /\ aiPc' = "read"
  /\ UNCHANGED <<wsState, aiState, twPc, aiOut>>
  /\ UNCHANGED <<streamSid, phoneNumber, cfgVars, aiCur, twCur, audioSid, twOut, posts,
                 twMediaIn, twStartIn, aiDeltaIn, aiCallIn>>

\* What a handshake message carries: &sessionUpdate and &firstResponseUpdate
\* are marshalled as they are when the send happens (lines 181, 186).
HandshakeArg(kind) ==
  CASE kind = "session.update" -> sessionUpdate.instructions
    [] kind = "greeting" -> firstResponseUpdate.text
    [] OTHER -> ""

\* Variant: the error of a handshake send is logged and the handshake goes on.
BridgeSendIgnoringError(at, kind, next) ==
  /\ brPc = at
  /\ \E ok \in WriteOutcomes(aiState, aiOut) :
       aiOut' = Append(aiOut, AIMsg(kind, "bridge", HandshakeArg(kind), ok))
  /\ brPc' = next
  /\ UNCHANGED <<wsState, aiState, aiPc, twPc>>
  /\ UNCHANGED <<streamSid, phoneNumber, cfgVars, aiCur, twCur, audioSid, twOut, posts,
                 twMediaIn, twStartIn, aiDeltaIn, aiCallIn>>

\* One handshake send: openAIWs.WriteJSON(...); on error return, which runs
\* the deferred closes.
BridgeSend(at, kind, next) ==
  /\ brPc = at
  /\ \E ok \in WriteOutcomes(aiState, aiOut) :
       /\ aiOut' = Append(aiOut, AIMsg(kind, "bridge", HandshakeArg(kind), ok))
       /\ brPc' = IF ok THEN next ELSE "closeAI"
  /\ UNCHANGED <<wsState, aiState, aiPc, twPc>>
  /\ UNCHANGED <<streamSid, phoneNumber, cfgVars, aiCur, twCur, audioSid, twOut, posts,
                 twMediaIn, twStartIn, aiDeltaIn, aiCallIn>>

\* lines 181-184
BridgeSendUpdate == BridgeSend("sendUpdate", "session.update", "sendGreeting")

\* lines 186-189
BridgeSendGreeting == BridgeSend("sendGreeting", "greeting", "sendCreate")

\* lines 191-197
BridgeSendCreate == BridgeSend("sendCreate", "response.create", "callTwilio")

\* handleTwilioMessages(ws, openAIWs, &streamSid) (line 199): a plain call,
\* the handler goroutine runs the telephony reader itself.
BridgeCallTwilio ==
  /\ brPc = "callTwilio"
  /\ brPc' = "inTwilio"
  /\ twPc' = "read"
  /\ UNCHANGED <<wsState, aiState, aiPc, aiOut>>
  /\ UNCHANGED <<streamSid, phoneNumber, cfgVars, aiCur, twCur, audioSid, twOut, posts,
                 twMediaIn, twStartIn, aiDeltaIn, aiCallIn>>

\* Variant: the telephony reader is not waited for (as if line 199 started
\* it with `go`).
BridgeTwilioNotAwaited ==
  /\ brPc = "inTwilio"
  /\ brPc' = "closeAI"
  /\ UNCHANGED <<wsState, aiState, aiPc, twPc, aiOut>>
  /\ UNCHANGED <<streamSid, phoneNumber, cfgVars, aiCur, twCur, audioSid, twOut, posts,
                 twMediaIn, twStartIn, aiDeltaIn, aiCallIn>>

\* The call of line 199 returns when the telephony reader returns; then
\* handleMediaStream returns (line 200).
BridgeTwilioReturned ==
  /\ brPc = "inTwilio"
  /\ twPc = "done"
  /\ brPc' = "closeAI"
  /\ UNCHANGED <<wsState, aiState, aiPc, twPc, aiOut>>
  /\ UNCHANGED <<streamSid, phoneNumber, cfgVars, aiCur, twCur, audioSid, twOut, posts,
                 twMediaIn, twStartIn, aiDeltaIn, aiCallIn>>

\* defer openAIWs.Close() (line 173): deferred calls run last-in first-out.
BridgeCloseAI ==
  /\ brPc = "closeAI"
  /\ brPc' = "closeWs"
  /\ aiState' = "closed"
  /\ UNCHANGED <<wsState, aiPc, twPc, aiOut>>
  /\ UNCHANGED <<streamSid, phoneNumber, cfgVars, aiCur, twCur, audioSid, twOut, posts,
                 twMediaIn, twStartIn, aiDeltaIn, aiCallIn>>

\* defer ws.Close() (line 161).
BridgeCloseWs ==
  /\ brPc = "closeWs"
  /\ brPc' = "done"
  /\ wsState' = "closed"
  /\ UNCHANGED <<aiState, aiPc, twPc, aiOut>>
  /\ UNCHANGED <<streamSid, phoneNumber, cfgVars, aiCur, twCur, audioSid, twOut, posts,
                 twMediaIn, twStartIn, aiDeltaIn, aiCallIn>>

\* ---------------------------------------------- handleTwilioMessages
\* twilioWs.ReadMessage() (lines 306-310): a frame, or an error, on which the
\* reader returns.  A read on a socket this side has closed only fails.
TwReadFails ==
  /\ twPc = "read"
  /\ twPc' = "done"
  /\ UNCHANGED <<twCur, streamSid, twMediaIn, twStartIn>>
  /\ UNCHANGED <<brVars, aiVars, aiOut, phoneNumber, cfgVars>>

TwRead ==
  /\ twPc = "read"
  /\ wsState = "open"
  /\ \E e \in {TwMalformed} \cup TwMediaEvents \cup TwStartEvents \cup TwOtherEvents :
       /\ e \in TwMediaEvents \cup TwStartEvents => EventsSeen < MaxEvents
       /\ twCur' = e
       /\ twMediaIn' = IF e \in TwMediaEvents THEN Append(twMediaIn, e.payload) ELSE twMediaIn
       /\ twStartIn' = IF e \in TwStartEvents THEN Append(twStartIn, e.streamSid) ELSE twStartIn
  /\ twPc' = "handle"
  /\ UNCHANGED streamSid
  /\ UNCHANGED <<brVars, aiVars, aiOut, phoneNumber, cfgVars>>

\* json.Unmarshal fails (lines 312-316): continue.
TwSkipMalformed ==
  /\ twPc = "handle"
  /\ ~twCur.decodes
  /\ twPc' = "read"
  /\ twCur' = NoTwEvent
  /\ UNCHANGED <<streamSid, twMediaIn, twStartIn>>
  /\ UNCHANGED <<brVars, aiVars, aiOut, phoneNumber, cfgVars>>

\* Variant: a media event without a string payload is skipped instead of
\* being forwarded with an empty payload.
TwMediaSkippingEmpty ==
  /\ twPc = "handle"
  /\ twCur.decodes
  /\ twCur.event = "media"
  /\ \E ok \in WriteOutcomes(aiState, aiOut) :
       aiOut' = IF IsStr(twCur.payload)
                  THEN Append(aiOut,
                              AIMsg("input_audio_buffer.append", "twilio", twCur.payload, ok))
                  ELSE aiOut
  /\ twPc' = "read"
  /\ twCur' = NoTwEvent
  /\ UNCHANGED <<streamSid, twMediaIn, twStartIn>>
  /\ UNCHANGED <<brVars, aiVars, phoneNumber, cfgVars>>

\* Variant: the append waits for the dispatcher (as if the AI socket were
\* locked for the whole of the function call).
TwMediaAfterDispatcher ==
  /\ twPc = "handle"
  /\ twCur.decodes
  /\ twCur.event = "media"
  /\ aiPc \notin {"webhook", "sendOutput", "sendCreate"}
  /\ \E ok \in WriteOutcomes(aiState, aiOut) :
       aiOut' = Append(aiOut,
                       AIMsg("input_audio_buffer.append", "twilio", StrOr(twCur.payload), ok))
  /\ twPc' = "read"
  /\ twCur' = NoTwEvent
  /\ UNCHANGED <<streamSid, twMediaIn, twStartIn>>
  /\ UNCHANGED <<brVars, aiVars, phoneNumber, cfgVars>>

\* Variant: the reader returns when its append fails.
TwMediaReturnOnError ==
  /\ twPc = "handle"
  /\ twCur.decodes
  /\ twCur.event = "media"
  /\ \E ok \in WriteOutcomes(aiState, aiOut) :
       /\ aiOut' = Append(aiOut,
                          AIMsg("input_audio_buffer.append", "twilio", StrOr(twCur.payload), ok))
       /\ twPc' = IF ok THEN "read" ELSE "done"
  /\ twCur' = NoTwEvent
  /\ UNCHANGED <<streamSid, twMediaIn, twStartIn>>
  /\ UNCHANGED <<brVars, aiVars, phoneNumber, cfgVars>>

\* case "media" (lines 320-329): one input_audio_buffer.append; a write
\* error is logged and the loop goes on.
TwMedia ==
  /\ twPc = "handle"
  /\ twCur.decodes
  /\ twCur.event = "media"
  /\ \E ok \in WriteOutcomes(aiState, aiOut) :
       aiOut' = Append(aiOut,
                       AIMsg("input_audio_buffer.append", "twilio", StrOr(twCur.payload), ok))
  /\ twPc' = "read"
  /\ twCur' = NoTwEvent
  /\ UNCHANGED <<streamSid, twMediaIn, twStartIn>>
  /\ UNCHANGED <<brVars, aiVars, phoneNumber, cfgVars>>

\* Variant: the identifier is stored by the first start event only.
TwStartOnce ==
  /\ twPc = "handle"
  /\ twCur.decodes
  /\ twCur.event = "start"
  /\ streamSid' = IF streamSid = "" THEN StrOr(twCur.streamSid) ELSE streamSid
  /\ twPc' = "read"
  /\ twCur' = NoTwEvent
  /\ UNCHANGED <<twMediaIn, twStartIn>>
  /\ UNCHANGED <<brVars, aiVars, aiOut, phoneNumber, cfgVars>>

\* case "start" (lines 330-333): *streamSid, _ = start["streamSid"].(string)
TwStart ==
  /\ twPc = "handle"
  /\ twCur.decodes
  /\ twCur.event = "start"
  /\ streamSid' = StrOr(twCur.streamSid)
  /\ twPc' = "read"
  /\ twCur' = NoTwEvent
  /\ UNCHANGED <<twMediaIn, twStartIn>>
  /\ UNCHANGED <<brVars, aiVars, aiOut, phoneNumber, cfgVars>>

\* default (lines 334-335): logged only.
TwOther ==
  /\ twPc = "handle"
  /\ twCur.decodes
  /\ twCur.event \notin {"media", "start"}
  /\ twPc' = "read"
  /\ twCur' = NoTwEvent
  /\ UNCHANGED <<streamSid, twMediaIn, twStartIn>>
  /\ UNCHANGED <<brVars, aiVars, aiOut, phoneNumber, cfgVars>>

\* ---------------------------------------------- handleOpenAIMessages
\* Variant: a read returns an error only when the peer has gone, not when
\* this side has closed the socket.
AIReadFailsOnPeerOnly ==
  /\ aiPc = "read"
  /\ aiState = "open"
  /\ aiPc' = "done"
  /\ UNCHANGED <<aiCur, audioSid, twOut, posts, aiDeltaIn, aiCallIn>>
  /\ UNCHANGED <<brVars, twVars, aiOut, phoneNumber, cfgVars>>

\* openAIWs.ReadMessage() (lines 204-208): a frame, or an error, on which the
\* reader returns.
AIReadFails ==
  /\ aiPc = "read"
  /\ aiPc' = "done"
  /\ UNCHANGED <<aiCur, audioSid, twOut, posts, aiDeltaIn, aiCallIn>>
  /\ UNCHANGED <<brVars, twVars, aiOut, phoneNumber, cfgVars>>

AIRead ==
  /\ aiPc = "read"
  /\ aiState = "open"
  /\ \E e \in AIEvents :
       /\ IsDeltaEvent(e) \/ IsCallEvent(e) => EventsSeen < MaxEvents
       /\ aiCur' = e
       /\ aiDeltaIn' = IF IsDeltaEvent(e) THEN Append(aiDeltaIn, e.delta) ELSE aiDeltaIn
       /\ aiCallIn' = IF IsCallEvent(e) THEN Append(aiCallIn, e) ELSE aiCallIn
  /\ aiPc' = "decode"
  /\ UNCHANGED <<audioSid, twOut, posts>>
  /\ UNCHANGED <<brVars, twVars, aiOut, phoneNumber, cfgVars>>

\* Variant: a frame that is no JSON ends the reader.
AIReturnOnMalformed ==
  /\ aiPc = "decode"
  /\ ~aiCur.decodes
  /\ aiPc' = "done"
  /\ aiCur' = NoAIEvent
  /\ UNCHANGED <<audioSid, twOut, posts, aiDeltaIn, aiCallIn>>
  /\ UNCHANGED <<brVars, twVars, aiOut, phoneNumber, cfgVars>>

\* json.Unmarshal fails (lines 210-214): continue.
AISkipMalformed ==
  /\ aiPc = "decode"
  /\ ~aiCur.decodes
  /\ aiPc' = "read"
  /\ aiCur' = NoAIEvent
  /\ UNCHANGED <<audioSid, twOut, posts, aiDeltaIn, aiCallIn>>
  /\ UNCHANGED <<brVars, twVars, aiOut, phoneNumber, cfgVars>>

\* Variant: an error event goes on to the test of its response object.
AISkipErrorThenResponse ==
  /\ aiPc = "decode"
  /\ aiCur.decodes
  /\ aiCur.type = "error"
  /\ aiPc' = "func"
  /\ UNCHANGED <<aiCur, audioSid, twOut, posts, aiDeltaIn, aiCallIn>>
  /\ UNCHANGED <<brVars, twVars, aiOut, phoneNumber, cfgVars>>

\* responseType == "error" (lines 225-228): logged, continue.
AISkipError ==
  /\ aiPc = "decode"
  /\ aiCur.decodes
  /\ aiCur.type = "error"
  /\ aiPc' = "read"
  /\ aiCur' = NoAIEvent
  /\ UNCHANGED <<audioSid, twOut, posts, aiDeltaIn, aiCallIn>>
  /\ UNCHANGED <<brVars, twVars, aiOut, phoneNumber, cfgVars>>

\* Variant: the kind of the event is not tested.
IsAudioDeltaAnyKind(e) == IsStr(e.delta)

\* The test of lines 230-231: the event is an audio delta with a string delta.
IsAudioDelta(e) == e.type = "response.audio.delta" /\ IsStr(e.delta)

\* Lines 216-231: the type is read and logged (the loop over logEventTypes
\* has no effect); an audio delta with a string payload is forwarded.
AIClassifyDelta ==
  /\ aiPc = "decode"
  /\ aiCur.decodes
  /\ aiCur.type # "error"
  /\ IsAudioDelta(aiCur)
  /\ aiPc' = "build"
  /\ UNCHANGED <<aiCur, audioSid, twOut, posts, aiDeltaIn, aiCallIn>>
  /\ UNCHANGED <<brVars, twVars, aiOut, phoneNumber, cfgVars>>

\* Variant: the arguments are not required to unmarshal.
AcceptsCallUnparsed(e) ==
  /\ e.hasResponse
  /\ e.outIsList /\ Len(e.output) # 0
  /\ e.output[1].isObj
  /\ IsStr(e.output[1].type) /\ IsStr(e.output[1].name)
  /\ IsStr(e.output[1].arguments) /\ IsStr(e.output[1].call_id)
  /\ e.output[1].type = "function_call" /\ e.output[1].name = "setup_schedule"

\* Variant: the call_id is not required to be a string.
AcceptsCallAnyCallId(e) ==
  /\ e.hasResponse
  /\ e.outIsList /\ Len(e.output) # 0
  /\ e.output[1].isObj
  /\ IsStr(e.output[1].type) /\ IsStr(e.output[1].name)
  /\ IsStr(e.output[1].arguments)
  /\ e.output[1].type = "function_call" /\ e.output[1].name = "setup_schedule"
  /\ ~ParseArgs(e.output[1].arguments).err

\* Variant: every function call is dispatched, whatever its name.
AcceptsCallAnyFunction(e) ==
  /\ e.hasResponse
  /\ e.outIsList /\ Len(e.output) # 0
  /\ e.output[1].isObj
  /\ IsStr(e.output[1].type) /\ IsStr(e.output[1].name)
  /\ IsStr(e.output[1].arguments) /\ IsStr(e.output[1].call_id)
  /\ e.output[1].type = "function_call"
  /\ ~ParseArgs(e.output[1].arguments).err

\* Lines 245-273: the event is handed to setupSchedule only if it has a
\* response object whose output is a non-empty list, whose first element is
\* an object with string type, name, arguments and call_id, of type
\* function_call and name setup_schedule, with arguments that unmarshal into
\* a map[string]string.
AcceptsCall(e) ==
  /\ e.hasResponse
  /\ e.outIsList /\ Len(e.output) # 0
  /\ e.output[1].isObj
  /\ IsStr(e.output[1].type) /\ IsStr(e.output[1].name)
  /\ IsStr(e.output[1].arguments) /\ IsStr(e.output[1].call_id)
  /\ e.output[1].type = "function_call" /\ e.output[1].name = "setup_schedule"
  /\ ~ParseArgs(e.output[1].arguments).err

\* The position of the reader in the test of lines 245-273: straight after
\* the type tests for an event that is no audio delta, after the media write
\* for one that is.
AtResponseTest ==
  \/ aiPc = "func"
  \/ aiPc = "decode" /\ aiCur.decodes /\ aiCur.type # "error" /\ ~IsAudioDelta(aiCur)

\* Every path of lines 245-273 that ends the iteration without a call.
AIIgnoreResponse ==
  /\ AtResponseTest
  /\ ~AcceptsCall(aiCur)
  /\ aiPc' = "read"
  /\ aiCur' = NoAIEvent
  /\ UNCHANGED <<audioSid, twOut, posts, aiDeltaIn, aiCallIn>>
  /\ UNCHANGED <<brVars, twVars, aiOut, phoneNumber, cfgVars>>

\* What the read of *streamSid on line 234 can return.  Nothing orders it
\* with the store of line 332 in the other goroutine: while the telephony
\* reader is at that store the read is a data race and may see the old
\* string, the new one, or a mix of the two words of the string header.
SidReadOutcomes ==
  IF twPc = "handle" /\ twCur.decodes /\ twCur.event = "start"
    THEN {streamSid, StrOr(twCur.streamSid)}
           \cup (IF StrOr(twCur.streamSid) # streamSid THEN {TornSid} ELSE {})
    ELSE {streamSid}

\* audioDelta := map[string]interface{}{... "streamSid": *streamSid ...}
\* (lines 232-238)
AIBuildMedia ==
  /\ aiPc = "build"
  /\ audioSid' \in SidReadOutcomes
  /\ aiPc' = "writeMedia"
  /\ UNCHANGED <<aiCur, twOut, posts, aiDeltaIn, aiCallIn>>
  /\ UNCHANGED <<brVars, twVars, aiOut, phoneNumber, cfgVars>>

\* twilioWs.WriteJSON(audioDelta) (lines 239-241): an error is logged only.
AIWriteMedia ==
  /\ aiPc = "writeMedia"
  /\ \E ok \in WriteOutcomes(wsState, twOut) :
       twOut' = Append(twOut, TwMsg(audioSid, aiCur.delta, ok))
  /\ aiPc' = "func"
  /\ audioSid' = ""
  /\ UNCHANGED <<aiCur, posts, aiDeltaIn, aiCallIn>>
  /\ UNCHANGED <<brVars, twVars, aiOut, phoneNumber, cfgVars>>

\* Variant: the phone number is left out of the body.
ScheduleBodyNoPhone(data, phone) ==
  [name |-> data["name"], email |-> data["email"], datetime |-> data["datetime"],
   description |-> data["description"], phone_number |-> ""]

\* The JSON body setupSchedule posts (lines 341-355).
ScheduleBody(data, phone) ==
  [name |-> data["name"], email |-> data["email"], datetime |-> data["datetime"],
   description |-> data["description"], phone_number |-> phone]

\* setupSchedule(data["name"], ..., phoneNumber) up to client.Do(req)
\* (lines 275, 340-368): the POST is issued and the reader blocks on it.
AICallWebhook ==
  /\ AtResponseTest
  /\ AcceptsCall(aiCur)
  /\ posts' = Append(posts,
                     [body |-> ScheduleBody(ParseArgs(aiCur.output[1].arguments).data,
                                            phoneNumber),
                      call_id |-> aiCur.output[1].call_id,
                      answer |-> Pending])
  /\ aiPc' = "webhook"
  /\ UNCHANGED <<aiCur, audioSid, twOut, aiDeltaIn, aiCallIn>>
  /\ UNCHANGED <<brVars, twVars, aiOut, phoneNumber, cfgVars>>

\* Variant: every 2xx status counts as success.
SetupScheduleFailsNon2xx(ans) == ans.err \/ ans.status < 200 \/ ans.status > 299

\* What setupSchedule returns for an answer of the webhook (lines 368-378):
\* an error for a transport error and for every status but 200.
SetupScheduleFails(ans) == ans.err \/ ans.status # StatusOK

\* client.Do returns; on an error of setupSchedule the call is logged and
\* dropped (lines 275-278).
AIWebhookAnswer ==
  /\ aiPc = "webhook"
  /\ \E ans \in WebhookAnswers :
       /\ posts' = [posts EXCEPT ![Len(posts)].answer = ans]
       /\ aiPc' = IF SetupScheduleFails(ans) THEN "read" ELSE "sendOutput"
       /\ aiCur' = IF SetupScheduleFails(ans) THEN NoAIEvent ELSE aiCur
  /\ UNCHANGED <<audioSid, twOut, aiDeltaIn, aiCallIn>>
  /\ UNCHANGED <<brVars, twVars, aiOut, phoneNumber, cfgVars>>

\* openAIWs.WriteJSON(webhookResponse) (lines 280-290): an error is logged
\* and the function goes on.
AISendOutput ==
  /\ aiPc = "sendOutput"
  /\ \E ok \in WriteOutcomes(aiState, aiOut) :
       aiOut' = Append(aiOut,
                       AIMsg("function_call_output", "ai", aiCur.output[1].call_id, ok))
  /\ aiPc' = "sendCreate"
  /\ UNCHANGED <<aiCur, audioSid, twOut, posts, aiDeltaIn, aiCallIn>>
  /\ UNCHANGED <<brVars, twVars, phoneNumber, cfgVars>>

\* openAIWs.WriteJSON(&responseCreate) (lines 292-298).
AISendCreate ==
  /\ aiPc = "sendCreate"
  /\ \E ok \in WriteOutcomes(aiState, aiOut) :
       aiOut' = Append(aiOut, AIMsg("response.create", "ai", "", ok))
  /\ aiPc' = "read"
  /\ aiCur' = NoAIEvent
  /\ UNCHANGED <<audioSid, twOut, posts, aiDeltaIn, aiCallIn>>
  /\ UNCHANGED <<brVars, twVars, phoneNumber, cfgVars>>

\* ---------------------------------------------------------- specification
\* The handler goroutine: handleMediaStream and, inside it, the telephony
\* reader.
Handler ==
  \/ BridgeUpgrade
  \/ BridgeDial
  \/ BridgeSpawnAIReader
  \/ BridgeSendUpdate
  \/ BridgeSendGreeting
  \/ BridgeSendCreate
  \/ BridgeCallTwilio
  \/ BridgeTwilioReturned
  \/ BridgeCloseAI
  \/ BridgeCloseWs
  \/ TwRead
  \/ TwSkipMalformed
  \/ TwMedia
  \/ TwStart
  \/ TwOther

\* The goroutine of line 179.
AIReader ==
  \/ AIRead
  \/ AISkipMalformed
  \/ AISkipError
  \/ AIClassifyDelta
  \/ AIBuildMedia
  \/ AIWriteMedia
  \/ AIIgnoreResponse
  \/ AICallWebhook
  \/ AIWebhookAnswer
  \/ AISendOutput
  \/ AISendCreate

\* A socket read failing: the peer closed or the connection broke.
ReadFailure ==
  \/ TwReadFails
  \/ AIReadFails

Next == Run \/ Handler \/ AIReader \/ ReadFailure

Spec == Init /\ [][Next]_vars

\* Both goroutines keep being scheduled, and a read on a socket this side
\* has closed returns (with an error).  Nothing obliges a peer to close.
FairSpec ==
  /\ Spec
  /\ WF_vars(Run)
  /\ WF_vars(Handler)
  /\ WF_vars(AIReader)
  /\ WF_vars(AIReadFails /\ aiState = "closed")

\* Fair scheduling alone: both goroutines keep being scheduled and a read on
\* a socket this side has closed returns, but nothing obliges the webhook
\* to answer: client.Do (line 368) is made with an http.Client that has no
\* timeout.
SchedSpec ==
  /\ Spec
  /\ WF_vars(Run)
  /\ WF_vars(Handler)
  /\ WF_vars(AIReader /\ aiPc # "webhook")
  /\ WF_vars(AIReadFails /\ aiState = "closed")

\* ------------------------------------------------------------ observations
Front(q) == SubSeq(q, 1, Len(q) - 1)

ByBridge(m) == m.by = "bridge"
ByTwilio(m) == m.by = "twilio"
ByDispatcher(m) == m.by = "ai"

\* The WriteJSON calls on the AI socket made by handleMediaStream itself, by
\* the telephony reader and by the function dispatcher.
BridgeMsgs == SelectSeq(aiOut, ByBridge)
TwAppends == SelectSeq(aiOut, ByTwilio)
DispatcherMsgs == SelectSeq(aiOut, ByDispatcher)

AIReaderRunning == aiPc \notin {"idle", "done"}
TwReaderRunning == twPc \in {"read", "handle"}

HandshakeSucceeded == Len(BridgeMsgs) = 3 /\ \A i \in 1..3 : BridgeMsgs[i].ok
HandshakeFailed == Broken(BridgeMsgs)

\* The telephony events the reader has finished with: all those read, but
\* the one it is holding.
MediaProcessed ==
  IF twPc = "handle" /\ twCur \in TwMediaEvents THEN Front(twMediaIn) ELSE twMediaIn

StartsProcessed ==
  IF twPc = "handle" /\ twCur \in TwStartEvents THEN Front(twStartIn) ELSE twStartIn

\* The identifier stored by the last start event processed, "" before any.
LastStartSid ==
  IF StartsProcessed = <<>> THEN "" ELSE StrOr(StartsProcessed[Len(StartsProcessed)])

\* The audio deltas whose forwarding is over.
DeltasProcessed ==
  IF aiPc \in {"decode", "build", "writeMedia"} /\ IsDeltaEvent(aiCur)
    THEN Front(aiDeltaIn)
    ELSE aiDeltaIn

\* The function-call events the reader has taken a decision on (dropped, or
\* posted to the webhook).
CallsDecided ==
  IF aiPc \in {"decode", "build", "writeMedia", "func"} /\ IsCallEvent(aiCur)
    THEN Front(aiCallIn)
    ELSE aiCallIn

\* ------------------------------------------------------------------ claims
SocketReleased == wsState = "closed" \/ aiState = "closed"
SessionClosed == wsState = "closed" /\ aiState = "closed"

\* C1 (as claimed): in a session whose dial and three handshake sends
\* succeeded, the first three writes on the AI socket are session.update,
\* the greeting and response.create, by handleMediaStream, with no other
\* write before or between them.
C1_HandshakeFirst ==
  HandshakeSucceeded =>
    /\ \A i \in 1..3 : aiOut[i].by = "bridge"
    /\ aiOut[1].kind = "session.update"
    /\ aiOut[2].kind = "greeting"
    /\ aiOut[3].kind = "response.create"

C3_ClosesAfterAIReadFailure ==
  (aiPc = "done" /\ TwReaderRunning) ~> SessionClosed

\* C10: when handleMediaStream has returned no socket it opened is still
\* open; and once a handshake send has failed it is the last handshake send
\* and the telephony reader is never started.
C10_TeardownOnEveryExit ==
  /\ brPc = "done" => wsState # "open" /\ aiState # "open"
  /\ brPc = "done" /\ aiState = "none" /\ wsState = "none" => aiPc = "idle" /\ aiOut = <<>>
  /\ HandshakeFailed =>
       /\ \A i \in 1..Len(BridgeMsgs) : ~BridgeMsgs[i].ok => i = Len(BridgeMsgs)
       /\ twPc = "idle"
       /\ twCur = NoTwEvent
       /\ twMediaIn = <<>> /\ twStartIn = <<>>
       /\ TwAppends = <<>>
       /\ streamSid = ""
       /\ brPc \in {"closeAI", "closeWs", "done"}

\* C10 witness: handleMediaStream has returned after the greeting send
\* failed; both sockets are closed and the AI reader is still running.
C10_Witness ==
  /\ brPc = "done"
  /\ Len(BridgeMsgs) = 2
  /\ BridgeMsgs[1].ok /\ ~BridgeMsgs[2].ok
  /\ SessionClosed
  /\ AIReaderRunning

\* C4: as long as no write on the AI socket has failed, the payloads of the
\* input_audio_buffer.append events written by the telephony reader are, one
\* for one and in order, the payloads of the media events it has processed.
C4_AppendsMirrorMedia ==
  ~Broken(aiOut) =>
    /\ Len(TwAppends) = Len(MediaProcessed)
    /\ \A i \in 1..Len(TwAppends) :
         /\ TwAppends[i].kind = "input_audio_buffer.append"
         /\ TwAppends[i].arg = StrOr(MediaProcessed[i])

\* C4 witness: two media events with different payloads were forwarded, in
\* order, behind the handshake.
C4_Witness ==
  /\ ~Broken(aiOut)
  /\ twMediaIn = <<"p1", NotString>>
  /\ Len(TwAppends) = 2
  /\ TwAppends[1].arg = "p1" /\ TwAppends[2].arg = ""

\* C5: the media events written to the telephony socket are, one for one and
\* in arrival order, the string deltas of the response.audio.delta events
\* processed, payload unchanged; no other event causes a write there.
C5_MediaMirrorDeltas ==
  /\ Len(twOut) = Len(DeltasProcessed)
  /\ \A i \in 1..Len(twOut) :
       /\ twOut[i].event = "media"
       /\ twOut[i].payload = DeltasProcessed[i]

\* C5 witness: two deltas with different payloads were forwarded in arrival
\* order.
C5_Witness ==
  /\ aiDeltaIn = <<"p2", "p1">>
  /\ Len(twOut) = 2
  /\ twOut[1].payload = "p2" /\ twOut[2].payload = "p1"
  /\ twOut[1].ok /\ twOut[2].ok

\* C6 (as claimed): the streamSid put into a media event is the identifier
\* stored by the last start event the telephony reader has finished
\* processing, and the empty identifier before any.
C6_SidOfLastStart ==
  [][aiPc = "build" /\ aiPc' = "writeMedia" => audioSid' = LastStartSid]_vars

\* The event a function call comes in, and the body and call identifier the
\* claim expects for it.
NotErrorEvent(e) == e.type # "error"
CallArgs(e) == ParseArgs(e.output[1].arguments).data
CallId(e) == e.output[1].call_id

\* The webhook answered 200.
Answered200(post) == ~post.answer.err /\ post.answer.status = 200

\* What the dispatcher is to write for the posts made: a function_call_output
\* with the call identifier and then a response.create, for each post that
\* was answered 200.
RECURSIVE ExpectedCompletions(_, _)
ExpectedCompletions(calls, ps) ==
  IF ps = <<>> THEN <<>>
  ELSE ExpectedCompletions(Front(calls), Front(ps)) \o
         (IF Answered200(ps[Len(ps)])
            THEN << <<"function_call_output", CallId(calls[Len(calls)])>>,
                    <<"response.create", "">> >>
            ELSE <<>>)

\* How many of these writes are still to come for the call in hand.
CompletionsToCome ==
  IF aiPc = "sendOutput" THEN 2 ELSE IF aiPc = "sendCreate" THEN 1 ELSE 0

\* One POST per call of the sequence calls, with the fields of the call and
\* the phone number of the session; and for each POST answered 200 one
\* function_call_output with its call identifier, then one response.create.
OnePostAndCompletionPerCall(calls) ==
  /\ Len(posts) = Len(calls)
  /\ \A i \in 1..Len(posts) :
       /\ posts[i].body.name = CallArgs(calls[i])["name"]
       /\ posts[i].body.email = CallArgs(calls[i])["email"]
       /\ posts[i].body.datetime = CallArgs(calls[i])["datetime"]
       /\ posts[i].body.description = CallArgs(calls[i])["description"]
       /\ posts[i].body.phone_number = phoneNumber
  /\ Len(posts) = Len(calls) =>
       LET want == ExpectedCompletions(calls, posts)
           n == Len(want) - CompletionsToCome
       IN /\ Len(DispatcherMsgs) = n
          /\ \A i \in 1..Len(DispatcherMsgs) :
               /\ DispatcherMsgs[i].kind = want[i][1]
               /\ DispatcherMsgs[i].arg = want[i][2]

\* C7 (as claimed): every AI event whose first output is a well-formed
\* setup_schedule call gets exactly one POST and, when it is answered 200,
\* one function_call_output with its call id followed by one response.create.
C7_EveryCallDispatched == OnePostAndCompletionPerCall(CallsDecided)

\* C7 (amended): the same, for every such event whose kind is not error.
C7_EveryNonErrorCallDispatched ==
  OnePostAndCompletionPerCall(SelectSeq(CallsDecided, NotErrorEvent))

\* C7 witness: a call with id c1 was posted with the session phone number and
\* answered 200, and the dispatcher wrote its two events.
C7_Witness ==
  /\ aiPc = "read"
  /\ Len(posts) = 1 /\ Answered200(posts[1])
  /\ posts[1].body.name = "Alice" /\ posts[1].body.phone_number \in Phones
  /\ Len(DispatcherMsgs) = 2
  /\ DispatcherMsgs[1].kind = "function_call_output" /\ DispatcherMsgs[1].arg = "c1"
  /\ DispatcherMsgs[2].kind = "response.create"

\* C8: when the webhook call fails (a transport error, or any status but
\* 200) the step that takes the answer makes no further POST and no write,
\* and leaves the reader at its next read; and the dispatcher never has
\* written more than two events per POST answered 200.
C8_NoCompletionOnWebhookFailure ==
  /\ [](Len(DispatcherMsgs) <= 2 * Cardinality({i \in 1..Len(posts) : Answered200(posts[i])}))
  /\ [][(/\ aiPc = "webhook"
          /\ aiPc' # "webhook"
          /\ ~Answered200(posts'[Len(posts')]))
         => /\ aiPc' = "read"
            /\ Len(posts') = Len(posts)
            /\ aiOut' = aiOut
            /\ twOut' = twOut]_vars

\* C8 witness: a POST was answered 201, nothing was written for it, and the
\* reader holds the next AI event.
C8_Witness ==
  /\ Len(posts) = 1
  /\ ~posts[1].answer.err /\ posts[1].answer.status = 201
  /\ DispatcherMsgs = <<>>
  /\ aiPc = "decode" /\ IsDeltaEvent(aiCur)

\* C9: a frame that is no JSON changes nothing but the position of the
\* reader that read it, which goes back to its next read with no write on
\* either socket; and a reader returns only from a read.
C9_MalformedIsSkipped ==
  [][/\ (aiPc = "read" /\ aiPc' = "decode" /\ ~aiCur'.decodes)
        => UNCHANGED <<aiOut, twOut, posts, audioSid, aiDeltaIn, aiCallIn, streamSid,
                       wsState, aiState>>
     /\ (aiPc = "decode" /\ ~aiCur.decodes /\ aiPc' # aiPc)
        => /\ aiPc' = "read" /\ aiCur' = NoAIEvent
           /\ UNCHANGED <<aiOut, twOut, posts, audioSid, aiDeltaIn, aiCallIn, streamSid,
                          wsState, aiState>>
     /\ (twPc = "read" /\ twPc' = "handle" /\ ~twCur'.decodes)
        => UNCHANGED <<aiOut, twOut, posts, streamSid, twMediaIn, twStartIn,
                       wsState, aiState>>
     /\ (twPc = "handle" /\ ~twCur.decodes /\ twPc' # twPc)
        => /\ twPc' = "read" /\ twCur' = NoTwEvent
           /\ UNCHANGED <<aiOut, twOut, posts, streamSid, twMediaIn, twStartIn,
                          wsState, aiState>>
     /\ (aiPc' = "done" /\ aiPc # "done") => aiPc = "read"
     /\ (twPc' = "done" /\ twPc # "done") => twPc = "read"]_vars

\* C9 witness: both readers hold a frame that is no JSON, in a session that
\* has already forwarded audio in both directions.
C9_Witness ==
  /\ aiPc = "decode" /\ aiCur = AIMalformed
  /\ twPc = "handle" /\ twCur = TwMalformed
  /\ Len(twOut) = 1
  /\ Len(TwAppends) = 1

\* C11: the session.update event a session sends carries as its instructions
\* the system-instruction string Run loaded into systemMessage, and the
\* greeting event carries the greeting text Run loaded into xmlResponse: the
\* handshake messages hold the configuration in force when the session
\* starts, not the values the variables held before Run assigned them.
C11_HandshakeCarriesConfiguration ==
  \A i \in 1..Len(aiOut) :
    /\ (ByBridge(aiOut[i]) /\ aiOut[i].kind = "session.update")
          => aiOut[i].arg = systemMessage
    /\ (ByBridge(aiOut[i]) /\ aiOut[i].kind = "greeting")
          => aiOut[i].arg = xmlResponse

\* C13: both channel readers start only after the three handshake events
\* have been issued: neither handleOpenAIMessages nor handleTwilioMessages
\* holds or processes an event read from its socket before the
\* session.update, greeting and response.create sends have been attempted.
C13_ReadersStartAfterHandshake ==
  (aiPc \notin {"idle", "read", "done"} \/ twPc = "handle")
    => Len(BridgeMsgs) = 3

\* C14 as stated: the stream identifier is written once; after the first
\* start event has been processed no later telephony event changes or
\* clears it.
C14_SidWrittenOnce ==
  [][StartsProcessed # <<>> => streamSid' = streamSid]_vars

\* C14: the stream identifier is written by the telephony reader only, once
\* for each start event it processes: every start event overwrites it with
\* the event's streamSid, or with the empty string when that is no string,
\* and no other step changes it, so that it always holds what the last
\* start event processed stored.
C14_SidWrittenByEveryStart ==
  /\ [](streamSid = LastStartSid)
  /\ [][streamSid' # streamSid
          => /\ twPc = "handle" /\ twCur \in TwStartEvents
             /\ streamSid' = StrOr(twCur.streamSid)]_vars

\* A second start event has replaced the identifier of the first.
C14_Witness ==
  /\ Len(StartsProcessed) = 2
  /\ IsStr(StartsProcessed[1])
  /\ StrOr(StartsProcessed[2]) # StartsProcessed[1]
  /\ streamSid = StrOr(StartsProcessed[2])

\* C15: while the dispatcher waits for the answer of the webhook, the AI
\* reader processes no further AI event of the session (it reads none and
\* writes nothing to either socket), whereas the telephony reader keeps
\* going: it can read the next telephony event and, holding a media event,
\* write its input_audio_buffer.append to the AI socket.
C15_WebhookWaitBlocksAIReaderOnly ==
  /\ [][(aiPc = "webhook" /\ aiPc' = "webhook")
          => /\ UNCHANGED <<aiCur, twOut, aiDeltaIn, aiCallIn, posts, audioSid>>
             /\ DispatcherMsgs' = DispatcherMsgs]_vars
  /\ [](aiPc = "webhook" => ~ENABLED AIRead)
  /\ []((aiPc = "webhook" /\ twPc = "read" /\ wsState = "open") => ENABLED TwRead)
  /\ []((aiPc = "webhook" /\ twPc = "handle" /\ twCur \in TwMediaEvents)
          => ENABLED TwMedia)

\* The dispatcher waits for the webhook while the telephony reader holds a
\* media event it is about to forward.
C15_Witness ==
  /\ aiPc = "webhook"
  /\ posts[Len(posts)].answer = Pending
  /\ twPc = "handle"
  /\ twCur \in TwMediaEvents

\* A step in which the AI reader ends its test of the response object of
\* the event it holds.
DecidesResponse ==
  /\ aiPc = "func" \/ (aiPc = "decode" /\ ~IsDeltaEvent(aiCur))
  /\ aiPc' # aiPc

DispatcherStays ==
  /\ posts' = posts
  /\ DispatcherMsgs' = DispatcherMsgs
  /\ aiPc' \notin {"webhook", "sendOutput", "sendCreate", "done"}

\* A setup_schedule function call whose arguments string is no flat
\* string-to-string JSON mapping.
BadArgumentsCall(e) ==
  /\ e.decodes /\ e.hasResponse /\ e.outIsList /\ Len(e.output) > 0
  /\ e.output[1].isObj
  /\ e.output[1].type = "function_call" /\ e.output[1].name = "setup_schedule"
  /\ IsStr(e.output[1].arguments) /\ IsStr(e.output[1].call_id)
  /\ ParseArgs(e.output[1].arguments).err

\* C16: when the arguments string of a setup_schedule function call does not
\* parse as a flat string-to-string JSON mapping the call is abandoned: no
\* webhook POST, no function_call_output and no response.create are produced
\* while the reader holds that event, and the reader goes back to its read
\* without terminating.
C16_UnparsableArgumentsAbandoned ==
  [][BadArgumentsCall(aiCur)
       => /\ DispatcherStays
          /\ DecidesResponse => (aiPc' = "read" /\ aiCur' = NoAIEvent)]_vars

\* The reader holds a setup_schedule call with nested arguments, in a
\* session that has dispatched a call before.
C16_Witness ==
  /\ aiPc = "decode"
  /\ BadArgumentsCall(aiCur)
  /\ Len(posts) = 1

\* C17: an AI event of kind error never closes the AI channel or terminates
\* the AI reader and produces no write to either socket and no webhook
\* POST, even when it carries a response object with a well-formed
\* setup_schedule function call; the reader goes back to its read.
C17_ErrorEventDropped ==
  [][(aiCur.decodes /\ aiCur.type = "error")
       => /\ DispatcherStays
          /\ twOut' = twOut
          /\ aiState' # aiState => brPc = "closeAI"
          /\ aiPc' # aiPc => (aiPc' = "read" /\ aiCur' = NoAIEvent)]_vars

\* The reader holds an error event that carries a well-formed call.
C17_Witness ==
  /\ aiPc = "decode"
  /\ aiCur = AIErrorCall
  /\ aiState = "open"

\* A response object whose output is absent, no list or empty, or whose
\* first output element lacks type, name, arguments or call_id as a string.
ShapeMismatch(e) ==
  /\ e.decodes
  /\ e.hasResponse
  /\ \/ ~e.outIsList
     \/ Len(e.output) = 0
     \/ ~e.output[1].isObj
     \/ ~IsStr(e.output[1].type)
     \/ ~IsStr(e.output[1].name)
     \/ ~IsStr(e.output[1].arguments)
     \/ ~IsStr(e.output[1].call_id)

\* C18: an AI event whose response object has an absent, non-list or empty
\* output, or whose first output element lacks any of type, name, arguments
\* or call_id as a string, triggers no webhook POST and no write of the AI
\* reader to the AI socket, and the reader goes back to its read without
\* terminating.
C18_ShapeMismatchIgnored ==
  [][ShapeMismatch(aiCur)
       => /\ DispatcherStays
          /\ DecidesResponse => (aiPc' = "read" /\ aiCur' = NoAIEvent)]_vars

\* The reader holds a setup_schedule call whose arguments are no string, in
\* a session that has dispatched a call before.
C18_Witness ==
  /\ aiPc = "decode"
  /\ ShapeMismatch(aiCur)
  /\ Len(aiCur.output) = 1
  /\ aiCur.output[1].name = "setup_schedule"
  /\ ~IsStr(aiCur.output[1].arguments)
  /\ Len(posts) = 1

\* The first element of the response output is a setup_schedule function
\* call.
FirstIsSetupCall(e) ==
  /\ e.decodes /\ e.hasResponse /\ e.outIsList /\ Len(e.output) > 0
  /\ e.output[1].type = "function_call"
  /\ e.output[1].name = "setup_schedule"

\* C19: each AI event triggers at most one webhook POST, and only when the
\* first element of its response output is a function_call named
\* setup_schedule: a first element of another kind or name, and a function
\* call in a later position, never produce a POST, a function_call_output
\* or a follow-up response.create.
C19_PostOnlyForFirstSetupCall ==
  /\ [](Len(posts) <= Len(aiCallIn))
  /\ [][/\ Len(posts') # Len(posts)
             => /\ Len(posts') = Len(posts) + 1
                /\ FirstIsSetupCall(aiCur)
                /\ aiCur' = aiCur
        /\ DispatcherMsgs' # DispatcherMsgs => FirstIsSetupCall(aiCur)
        /\ ~FirstIsSetupCall(aiCur)
             => aiPc' \notin {"webhook", "sendOutput", "sendCreate"}]_vars

\* After one POST, the reader holds an event whose function call is the
\* second element of the output.
C19_Witness ==
  /\ Len(posts) = 1
  /\ aiPc = "decode"
  /\ aiCur.decodes /\ aiCur.hasResponse
  /\ Len(aiCur.output) = 2
  /\ aiCur.output[2] = FnCall(ArgsFull, "c1")

\* C20: a failed write while forwarding audio never terminates the reader
\* that made it: after a failed media write the AI reader goes on, after a
\* failed input_audio_buffer.append the telephony reader goes back to its
\* read, and each still makes one write attempt for every later audio
\* event.
C20_FailedAudioWriteContinues ==
  /\ [](Broken(twOut) => Len(twOut) = Len(DeltasProcessed))
  /\ [](Broken(TwAppends) => Len(TwAppends) = Len(MediaProcessed))
  /\ [][/\ (Len(twOut') > Len(twOut) /\ ~twOut'[Len(twOut')].ok)
             => aiPc' \notin {"done", "idle"}
        /\ (Len(TwAppends') > Len(TwAppends) /\ ~TwAppends'[Len(TwAppends')].ok)
             => twPc' = "read"]_vars

\* A second append was attempted after the first one failed.
C20_Witness ==
  /\ Len(TwAppends) = 2
  /\ ~TwAppends[1].ok
  /\ Len(MediaProcessed) = 2

\* A goroutine is at a WriteJSON call on the AI socket: the AI reader's
\* dispatcher at lines 288 and 295, the handler goroutine at the handshake
\* sends of lines 181-197 or at the append of line 327.
DispatcherWriting == aiPc \in {"sendOutput", "sendCreate"}

HandlerWriting ==
  \/ brPc \in {"sendUpdate", "sendGreeting", "sendCreate"}
  \/ twPc = "handle" /\ twCur.decodes /\ twCur.event = "media"

\* C21: at most one task is writing to the AI socket at any moment: a write
\* of the dispatcher (function_call_output, follow-up response.create) never
\* overlaps a write of the bridge's own control flow (a handshake send or
\* the telephony reader's input_audio_buffer.append).
C21_OneWriterOnAISocket == ~(DispatcherWriting /\ HandlerWriting)

\* C22: the AI reader's read of the stream identifier, when it builds a
\* media event, never overlaps the telephony reader's write of it, when it
\* processes a start event.
C22_SidAccessesDisjoint ==
  ~(aiPc = "build" /\ twPc = "handle" /\ twCur.decodes /\ twCur.event = "start")

\* C23: no write is attempted on a socket after the bridge has closed it:
\* once handleMediaStream has returned and its deferred closes have run, the
\* AI reader writes no media event to the telephony socket and no
\* function_call_output or response.create to the AI socket.
C23_NoWriteAfterClose ==
  [][(brPc = "done" /\ SessionClosed)
       => (twOut' = twOut /\ DispatcherMsgs' = DispatcherMsgs)]_vars

\* C25: the dispatcher sends the follow-up response.create for a function
\* call only when the function_call_output of that call was written
\* successfully: a response.create of the dispatcher always follows a
\* function_call_output write that did not fail.
C25_CreateOnlyAfterOutputWritten ==
  \A i \in 1..Len(DispatcherMsgs) :
    DispatcherMsgs[i].kind = "response.create"
      => /\ i > 1
         /\ DispatcherMsgs[i - 1].kind = "function_call_output"
         /\ DispatcherMsgs[i - 1].ok

\* handleMediaStream has returned after a successful AI dial: its deferred
\* closes have run.
TornDown == brPc = "done" /\ aiState = "closed"

====
